---- MODULE Spec2Model ----
(***************************************************************************)
(* LRU-K replacer of src/src/buffer/lru_k_replacer.cpp as a state machine,  *)
(* followed by the copy-on-write trie of src/unnamed/part_000.             *)
(* Every public member function is one action; its body is an operator on  *)
(* a record of the object's fields, so that the eviction nested in         *)
(* RecordAccess reuses the body of Evict exactly as the code calls it.     *)
(***************************************************************************)
EXTENDS Integers, Sequences, FiniteSets, TLC

\* Bounds of the model.
MaxFrames == 2      \* largest num_frames given to the constructor
MaxK == 3           \* largest k given to the constructor
MaxTime == 3        \* cap on current_timestamp_ (number of admitted accesses)
NThreads == 2       \* threads that call the replacer concurrently
MaxOps == 3         \* Put and Remove calls made in a row on the trie

\* Frame ids that occur: 0 .. MaxFrames + 1; a replacer of capacity n is called
\* with 0 .. n + 1, so that ids below, at and above its capacity all occur.
FrameIds == 0..(MaxFrames + 1)

\* "no frame": the value of an out-parameter the callee did not write.
NoFrame == 0 - 1

VARIABLES
  replacer_size_,       \* size_t, num_frames of the constructor
  k_,                   \* size_t, k of the constructor
  max_size_,            \* size_t, written by SetEvictable and never read
  curr_size_,           \* size_t, what Size() returns
  current_timestamp_,   \* size_t, logical clock
  hist_,                \* frame -> sequence of timestamps (front = oldest)
  record_cnt_,          \* frame -> number of accesses since the last clear
  evictable_,           \* frame -> bool
  new_frames_,          \* std::list of frames, index 1 = front
  new_pos_,             \* keys of the frame -> iterator map into new_frames_
  k_frames_,            \* std::list of <<frame, kth_time>>, index 1 = front
  k_pos_,               \* keys of the frame -> iterator map into k_frames_
  latch_,               \* std::mutex: "free" or "held"
  last,                 \* the last call: operation, arguments and outcome
  pc,                   \* thread -> where it is: "idle" or inside a call
  args,                 \* thread -> the arguments of the call it is inside
  heap,                 \* the trie nodes allocated so far, by address 1..Len
  root_,                \* Trie::root_ of the newest trie: an address, 0 = null
  nops,                 \* number of Put and Remove calls made
  tlast                 \* the last call on a trie and its outcome

vars == <<replacer_size_, k_, max_size_, curr_size_, current_timestamp_, hist_,
          record_cnt_, evictable_, new_frames_, new_pos_, k_frames_, k_pos_,
          latch_, last, pc, args, heap, root_, nops, tlast>>

\* The variables of the tries, which the replacer leaves alone.
trie == <<heap, root_, nops, tlast>>

\* The threads, and what the sequential calls leave alone.
Threads == 1..NThreads
NoArgs == [frame |-> NoFrame, flag |-> FALSE]
threads == <<pc, args>>

\* The object's fields as one record.
Fields ==
  [replacer_size_ |-> replacer_size_, k_ |-> k_, max_size_ |-> max_size_,
   curr_size_ |-> curr_size_, current_timestamp_ |-> current_timestamp_,
   hist_ |-> hist_, record_cnt_ |-> record_cnt_, evictable_ |-> evictable_,
   new_frames_ |-> new_frames_, new_pos_ |-> new_pos_,
   k_frames_ |-> k_frames_, k_pos_ |-> k_pos_]

\* The fields after a call are those of record r.
Store(r) ==
  /\ replacer_size_' = r.replacer_size_
  /\ k_' = r.k_
  /\ max_size_' = r.max_size_
  /\ curr_size_' = r.curr_size_
  /\ current_timestamp_' = r.current_timestamp_
  /\ hist_' = r.hist_
  /\ record_cnt_' = r.record_cnt_
  /\ evictable_' = r.evictable_
  /\ new_frames_' = r.new_frames_
  /\ new_pos_' = r.new_pos_
  /\ k_frames_' = r.k_frames_
  /\ k_pos_' = r.k_pos_

\* A call as recorded in last: victim is the frame an eviction cleared. A call
\* leaves a record when it changes a field, returns a value or throws; a void
\* call that returns having changed nothing leaves none.
Call(op, frame, flag, result, victim) ==
  [op |-> op, frame |-> frame, flag |-> flag, result |-> result,
   victim |-> victim]

\* A void call that returned normally with the fields as they were.
Silent(r, result) == result = "ok" /\ r = Fields

\* The frame ids the callers of this replacer pass.
Args == 0..(replacer_size_ + 1)

----------------------------------------------------------------------------
\* Helpers on the two std::list members.

\* list.erase(iterator) with the iterator at index i (0: nothing to erase).
EraseAt(list, i) ==
  [j \in 1..(Len(list) - (IF i \in 1..Len(list) THEN 1 ELSE 0)) |->
     IF j < i \/ i = 0 THEN list[j] ELSE list[j + 1]]

\* list.insert(iterator, x) with the iterator at index i (Len + 1 = end()).
InsertAt(list, i, x) ==
  [j \in 1..(Len(list) + 1) |->
     IF j < i THEN list[j] ELSE IF j = i THEN x ELSE list[j - 1]]

\* new_pos_[frame]: the node of new_frames_ that holds frame. push_front
\* records begin(), so it is the first node holding the frame.
NewPos(r, frame) ==
  LET at == {i \in 1..Len(r.new_frames_) : r.new_frames_[i] = frame}
  IN IF at = {} THEN 0 ELSE CHOOSE i \in at : \A j \in at : i <= j

\* k_pos_[frame]: the node of k_frames_ that holds frame.
KPos(r, frame) ==
  LET at == {i \in 1..Len(r.k_frames_) : r.k_frames_[i][1] = frame}
  IN IF at = {} THEN 0 ELSE CHOOSE i \in at : \A j \in at : i <= j

\* CmpTimestamp(f1, f2): f1.second < f2.second.
CmpTimestamp(f1, f2) == f1[2] < f2[2]

\* Mutant of UpperBound: the new node always goes to the front.
UpperBound_Front(list, new_k) == 1

\* std::upper_bound(begin, end, new_k, CmpTimestamp): the first position whose
\* element e has CmpTimestamp(new_k, e), end() when there is none.
UpperBound(list, new_k) ==
  LET after == {i \in 1..Len(list) : CmpTimestamp(new_k, list[i])}
  IN IF after = {} THEN Len(list) + 1
     ELSE CHOOSE i \in after : \A j \in after : i <= j

----------------------------------------------------------------------------
\* Evict.

\* Mutant of IsEvictable: the scans take any frame, pinned or not.
IsEvictable_Always(r, frame) == TRUE

\* evictable_[frame], the test of both scans of Evict.
IsEvictable(r, frame) == r.evictable_[frame]

\* Second loop of Evict: k_frames_ from begin() on; the first node whose frame
\* is evictable, 0 when the loop ends without one.
WarmVictim(r) ==
  LET ok == {i \in 1..Len(r.k_frames_) : IsEvictable(r, r.k_frames_[i][1])}
  IN IF ok = {} THEN 0 ELSE CHOOSE i \in ok : \A j \in ok : i <= j

\* Mutant of ColdVictim: the warm list is searched first, the cold list only
\* when it holds no evictable frame.
ColdVictim_AfterWarm(r) ==
  LET ok == {i \in 1..Len(r.new_frames_) : IsEvictable(r, r.new_frames_[i])}
  IN IF ok = {} \/ WarmVictim(r) # 0 THEN 0
     ELSE CHOOSE i \in ok : \A j \in ok : i >= j

\* First loop of Evict: new_frames_ from rbegin() on; the first node met whose
\* frame is evictable (the one nearest the back), 0 when there is none.
ColdVictim(r) ==
  LET ok == {i \in 1..Len(r.new_frames_) : IsEvictable(r, r.new_frames_[i])}
  IN IF ok = {} THEN 0 ELSE CHOOSE i \in ok : \A j \in ok : i >= j

\* Mutant of EvictCold: the victim's history is not cleared.
EvictCold_KeepsHistory(r, frame) ==
  [r EXCEPT !.record_cnt_[frame] = 0,
            !.new_frames_ = EraseAt(@, NewPos(r, frame)),
            !.new_pos_ = @ \ {frame},
            !.curr_size_ = @ - 1]

\* Body of the first loop's if: clear the frame found in new_frames_.
EvictCold(r, frame) ==
  [r EXCEPT !.record_cnt_[frame] = 0,
            !.new_frames_ = EraseAt(@, NewPos(r, frame)),
            !.new_pos_ = @ \ {frame},
            !.hist_[frame] = <<>>,
            !.curr_size_ = @ - 1]

\* Body of the second loop's if: clear the frame at node i of k_frames_.
EvictWarm(r, i) ==
  LET frame == r.k_frames_[i][1]
  IN [r EXCEPT !.record_cnt_[frame] = 0,
               !.k_frames_ = EraseAt(@, i),
               !.k_pos_ = @ \ {frame},
               !.hist_[frame] = <<>>,
               !.curr_size_ = @ - 1]

\* Evict(&frame_id) after taking the latch: the fields on return, the value
\* returned and *frame_id.
EvictBody(r) ==
  IF r.curr_size_ = 0
    THEN [r |-> r, ret |-> FALSE, frame |-> NoFrame]
  ELSE IF ColdVictim(r) # 0
    THEN [r |-> EvictCold(r, r.new_frames_[ColdVictim(r)]), ret |-> TRUE,
          frame |-> r.new_frames_[ColdVictim(r)]]
  ELSE IF WarmVictim(r) # 0
    THEN [r |-> EvictWarm(r, WarmVictim(r)), ret |-> TRUE,
          frame |-> r.k_frames_[WarmVictim(r)][1]]
  ELSE [r |-> r, ret |-> FALSE, frame |-> NoFrame]

----------------------------------------------------------------------------
\* RecordAccess.

\* The range check of RecordAccess and Remove.
InvalidFrame(r, frame_id) == frame_id > r.replacer_size_

\* Lines 56-58: advance the clock, append it to the history, count the access.
Touch(r, frame_id) ==
  [r EXCEPT !.current_timestamp_ = @ + 1,
            !.hist_[frame_id] = Append(@, r.current_timestamp_ + 1),
            !.record_cnt_[frame_id] = @ + 1]

\* Mutant of Admit: curr_size_ is not incremented.
Admit_NoCount(r, frame_id) ==
  [r EXCEPT !.evictable_[frame_id] = TRUE,
            !.new_frames_ = <<frame_id>> \o @,
            !.new_pos_ = @ \cup {frame_id}]

\* cnt == 1, after the nested eviction: admit the frame to new_frames_.
Admit(r, frame_id) ==
  [r EXCEPT !.evictable_[frame_id] = TRUE,
            !.curr_size_ = @ + 1,
            !.new_frames_ = <<frame_id>> \o @,
            !.new_pos_ = @ \cup {frame_id}]

\* Sorted insert of (frame_id, hist_[frame_id].front()) into k_frames_.
InsertSorted(r, frame_id) ==
  LET new_k == <<frame_id, Head(r.hist_[frame_id])>>
  IN [r EXCEPT !.k_frames_ = InsertAt(@, UpperBound(@, new_k), new_k),
               !.k_pos_ = @ \cup {frame_id}]

\* Mutant of Promote: the frame is not erased from new_frames_.
Promote_KeepsCold(r, frame_id) == InsertSorted(r, frame_id)

\* cnt == k_: move the frame from new_frames_ to k_frames_.
Promote(r, frame_id) ==
  InsertSorted([r EXCEPT !.new_frames_ = EraseAt(@, NewPos(r, frame_id)),
                         !.new_pos_ = @ \ {frame_id}], frame_id)

\* Mutant of Reposition: the oldest timestamp is not dropped.
Reposition_NoTrim(r, frame_id) ==
  InsertSorted([r EXCEPT !.k_frames_ = EraseAt(@, KPos(r, frame_id))], frame_id)

\* Mutant of Reposition: the frame keeps its node in k_frames_.
Reposition_KeepsPlace(r, frame_id) == [r EXCEPT !.hist_[frame_id] = Tail(@)]

\* cnt > k_: drop the oldest timestamp and reposition the frame in k_frames_.
Reposition(r, frame_id) ==
  InsertSorted([r EXCEPT !.hist_[frame_id] = Tail(@),
                         !.k_frames_ = EraseAt(@, KPos(r, frame_id))], frame_id)

\* The outcomes of locking latch_ inside RecordAccess: there is a choice only
\* when the nested Evict is called.
Relock(r, frame_id) ==
  IF /\ ~InvalidFrame(r, frame_id)
     /\ r.record_cnt_[frame_id] = 0
     /\ r.curr_size_ = r.replacer_size_
    THEN {"blocks", "proceeds"}
    ELSE {"proceeds"}

\* RecordAccess(frame_id) after taking the latch. A first access made while
\* curr_size_ == replacer_size_ calls Evict, which locks latch_ again on the
\* thread that holds it: undefined behaviour for std::mutex. relock is the
\* outcome: "blocks" (the call never returns and the latch stays held) or
\* "proceeds" (the second lock is not felt and Evict runs).
RecordAccessBody(r, frame_id, relock) ==
  LET r1 == Touch(r, frame_id)
      cnt == r1.record_cnt_[frame_id]
      full == cnt = 1 /\ r1.curr_size_ = r1.replacer_size_
      ev == EvictBody(r1)
      r2 == IF full THEN ev.r ELSE r1
      r3 == IF cnt = 1 THEN Admit(r2, frame_id) ELSE r2
      r4 == IF cnt = r.k_ THEN Promote(r3, frame_id)
            ELSE IF cnt > r.k_ THEN Reposition(r3, frame_id)
            ELSE r3
  IN IF InvalidFrame(r, frame_id)
       THEN [r |-> r, result |-> "throw", victim |-> NoFrame]
     ELSE IF full /\ relock = "blocks"
       THEN [r |-> r1, result |-> "deadlock", victim |-> NoFrame]
     ELSE [r |-> r4, result |-> "ok",
           victim |-> IF full THEN ev.frame ELSE NoFrame]

----------------------------------------------------------------------------
\* SetEvictable and Remove.

\* Mutant of SetEvictableBody: the sizes follow the new flag without comparing
\* it with the old one.
SetEvictableBody_NoStatus(r, frame_id, set_evictable) ==
  LET d == IF set_evictable THEN 1 ELSE 0 - 1
  IN IF r.record_cnt_[frame_id] = 0 THEN r
     ELSE [r EXCEPT !.evictable_[frame_id] = set_evictable,
                    !.max_size_ = @ + d,
                    !.curr_size_ = @ + d]

\* SetEvictable(frame_id, set_evictable) after taking the latch.
SetEvictableBody(r, frame_id, set_evictable) ==
  LET status == r.evictable_[frame_id]
      d == IF status /\ ~set_evictable THEN 0 - 1
           ELSE IF ~status /\ set_evictable THEN 1 ELSE 0
  IN IF r.record_cnt_[frame_id] = 0 THEN r
     ELSE [r EXCEPT !.evictable_[frame_id] = set_evictable,
                    !.max_size_ = @ + d,
                    !.curr_size_ = @ + d]

\* Mutant of Pinned: Remove refuses no frame.
Pinned_Never(r, frame_id) == FALSE

\* The test of Remove that refuses a frame whose flag is false.
Pinned(r, frame_id) == ~r.evictable_[frame_id]

\* Mutant of RemoveBody: the removed frame's history is not cleared.
RemoveBody_KeepsHistory(r, frame_id) ==
  LET cnt == r.record_cnt_[frame_id]
  IN IF InvalidFrame(r, frame_id) THEN [r |-> r, result |-> "throw"]
     ELSE IF cnt = 0 THEN [r |-> r, result |-> "ok"]
     ELSE IF Pinned(r, frame_id) THEN [r |-> r, result |-> "throw"]
     ELSE IF cnt < r.k_
       THEN [r |-> [r EXCEPT !.new_frames_ = EraseAt(@, NewPos(r, frame_id)),
                             !.new_pos_ = @ \ {frame_id},
                             !.record_cnt_[frame_id] = 0,
                             !.curr_size_ = @ - 1],
             result |-> "ok"]
     ELSE [r |-> [r EXCEPT !.k_frames_ = EraseAt(@, KPos(r, frame_id)),
                           !.k_pos_ = @ \ {frame_id},
                           !.record_cnt_[frame_id] = 0,
                           !.curr_size_ = @ - 1],
           result |-> "ok"]

\* Remove(frame_id) after taking the latch.
RemoveBody(r, frame_id) ==
  LET cnt == r.record_cnt_[frame_id]
  IN IF InvalidFrame(r, frame_id) THEN [r |-> r, result |-> "throw"]
     ELSE IF cnt = 0 THEN [r |-> r, result |-> "ok"]
     ELSE IF Pinned(r, frame_id) THEN [r |-> r, result |-> "throw"]
     ELSE IF cnt < r.k_
       THEN [r |-> [r EXCEPT !.new_frames_ = EraseAt(@, NewPos(r, frame_id)),
                             !.new_pos_ = @ \ {frame_id},
                             !.record_cnt_[frame_id] = 0,
                             !.hist_[frame_id] = <<>>,
                             !.curr_size_ = @ - 1],
             result |-> "ok"]
     ELSE [r |-> [r EXCEPT !.k_frames_ = EraseAt(@, KPos(r, frame_id)),
                           !.k_pos_ = @ \ {frame_id},
                           !.record_cnt_[frame_id] = 0,
                           !.hist_[frame_id] = <<>>,
                           !.curr_size_ = @ - 1],
           result |-> "ok"]

----------------------------------------------------------------------------
\* The state machine.

\* LRUKReplacer(num_frames, k): empty maps and lists, size 0, clock 0.
Init ==
  /\ replacer_size_ \in 1..MaxFrames
  /\ k_ \in 1..MaxK
  /\ max_size_ = replacer_size_
  /\ curr_size_ = 0
  /\ current_timestamp_ = 0
  /\ hist_ = [f \in FrameIds |-> <<>>]
  /\ record_cnt_ = [f \in FrameIds |-> 0]
  /\ evictable_ = [f \in FrameIds |-> FALSE]
  /\ new_frames_ = <<>>
  /\ new_pos_ = {}
  /\ k_frames_ = <<>>
  /\ k_pos_ = {}
  /\ latch_ = "free"
  /\ last = Call("new", NoFrame, FALSE, "ok", NoFrame)
  /\ pc = [t \in Threads |-> "idle"]
  /\ args = [t \in Threads |-> NoArgs]
  /\ heap = <<>>
  /\ root_ = 0
  /\ nops = 0
  /\ tlast = [op |-> "new", key |-> <<>>, type |-> "", value |-> 0,
              result |-> "ok"]

Evict ==
  /\ latch_ = "free"
  /\ LET ev == EvictBody(Fields)
     IN /\ Store(ev.r)
        /\ last' = Call("Evict", NoFrame, FALSE,
                        IF ev.ret THEN "true" ELSE "false", ev.frame)
  /\ UNCHANGED <<latch_, threads, trie>>

RecordAccess(frame_id) ==
  /\ latch_ = "free"
  /\ current_timestamp_ < MaxTime
  /\ \E relock \in Relock(Fields, frame_id) :
       LET ra == RecordAccessBody(Fields, frame_id, relock)
       IN /\ Store(ra.r)
          /\ latch_' = IF ra.result = "deadlock" THEN "held" ELSE "free"
          /\ last' = Call("RecordAccess", frame_id, FALSE, ra.result, ra.victim)
  /\ UNCHANGED <<threads, trie>>

SetEvictable(frame_id, set_evictable) ==
  /\ latch_ = "free"
  /\ LET r == SetEvictableBody(Fields, frame_id, set_evictable)
     IN /\ Store(r)
        /\ last' = IF Silent(r, "ok") THEN last
                   ELSE Call("SetEvictable", frame_id, set_evictable, "ok",
                             NoFrame)
  /\ UNCHANGED <<latch_, threads, trie>>

Remove(frame_id) ==
  /\ latch_ = "free"
  /\ LET rm == RemoveBody(Fields, frame_id)
     IN /\ Store(rm.r)
        /\ last' = IF Silent(rm.r, rm.result) THEN last
                   ELSE Call("Remove", frame_id, FALSE, rm.result, NoFrame)
  /\ UNCHANGED <<latch_, threads, trie>>

\* Size() takes no latch: it returns curr_size_ whatever the latch's state.
Size ==
  /\ last' = Call("Size", NoFrame, FALSE, "ok", NoFrame)
  /\ UNCHANGED <<replacer_size_, k_, max_size_, curr_size_, current_timestamp_,
                 hist_, record_cnt_, evictable_, new_frames_, new_pos_,
                 k_frames_, k_pos_, latch_, threads, trie>>

Next ==
  \/ Evict
  \/ \E f \in Args : RecordAccess(f)
  \/ \E f \in Args, v \in BOOLEAN : SetEvictable(f, v)
  \/ \E f \in Args : Remove(f)
  \/ Size

Spec == Init /\ [][Next]_vars

----------------------------------------------------------------------------
\* The same member functions called from several threads. A call that takes
\* latch_ is two steps: the lock_guard's constructor, which waits until the
\* latch is free, and the body up to the return, which releases the latch.
\* Size() takes no latch: its two steps are the call and the return.

\* The fields are left as they are.
FieldsKept ==
  UNCHANGED <<replacer_size_, k_, max_size_, curr_size_, current_timestamp_,
              hist_, record_cnt_, evictable_, new_frames_, new_pos_, k_frames_,
              k_pos_>>

\* std::lock_guard<std::mutex> lock(latch_) at the head of op.
Lock(t, op, frame_id, flag) ==
  /\ pc[t] = "idle" /\ latch_ = "free"
  /\ op = "RecordAccess" => current_timestamp_ < MaxTime
  /\ latch_' = "held"
  /\ pc' = [pc EXCEPT ![t] = op]
  /\ args' = [args EXCEPT ![t] = [frame |-> frame_id, flag |-> flag]]
  /\ FieldsKept /\ UNCHANGED <<last, trie>>

\* The thread returns from its call; lock_guard's destructor frees the latch.
Unlock(t) ==
  /\ latch_' = "free"
  /\ pc' = [pc EXCEPT ![t] = "idle"]
  /\ args' = [args EXCEPT ![t] = NoArgs]
  /\ UNCHANGED trie

EvictReturn(t) ==
  /\ pc[t] = "Evict"
  /\ LET ev == EvictBody(Fields)
     IN /\ Store(ev.r)
        /\ last' = Call("Evict", NoFrame, FALSE,
                        IF ev.ret THEN "true" ELSE "false", ev.frame)
  /\ Unlock(t)

\* RecordAccess up to its return. When the nested Evict locks latch_ on the
\* thread that holds it, either the thread blocks for good with the latch held,
\* or the nested lock and unlock are not felt and the call runs to its return.
RecordAccessReturn(t) ==
  /\ pc[t] = "RecordAccess"
  /\ \E relock \in Relock(Fields, args[t].frame) :
       LET ra == RecordAccessBody(Fields, args[t].frame, relock)
       IN /\ Store(ra.r)
          /\ last' = Call("RecordAccess", args[t].frame, FALSE, ra.result,
                          ra.victim)
          /\ IF ra.result = "deadlock"
               THEN /\ pc' = [pc EXCEPT ![t] = "blocked"]
                    /\ UNCHANGED <<latch_, args, trie>>
               ELSE Unlock(t)

SetEvictableReturn(t) ==
  /\ pc[t] = "SetEvictable"
  /\ LET r == SetEvictableBody(Fields, args[t].frame, args[t].flag)
     IN /\ Store(r)
        /\ last' = IF Silent(r, "ok") THEN last
                   ELSE Call("SetEvictable", args[t].frame, args[t].flag, "ok",
                             NoFrame)
  /\ Unlock(t)

RemoveReturn(t) ==
  /\ pc[t] = "Remove"
  /\ LET rm == RemoveBody(Fields, args[t].frame)
     IN /\ Store(rm.r)
        /\ last' = IF Silent(rm.r, rm.result) THEN last
                   ELSE Call("Remove", args[t].frame, FALSE, rm.result, NoFrame)
  /\ Unlock(t)

\* Size() is entered without waiting for the latch.
SizeCall(t) ==
  /\ pc[t] = "idle"
  /\ pc' = [pc EXCEPT ![t] = "Size"]
  /\ FieldsKept /\ UNCHANGED <<latch_, last, args, trie>>

\* return curr_size_.
SizeReturn(t) ==
  /\ pc[t] = "Size"
  /\ last' = Call("Size", NoFrame, FALSE, "ok", NoFrame)
  /\ pc' = [pc EXCEPT ![t] = "idle"]
  /\ FieldsKept /\ UNCHANGED <<latch_, args, trie>>

\* The steps of thread t inside a call.
Proceed(t) ==
  \/ EvictReturn(t)
  \/ RecordAccessReturn(t)
  \/ SetEvictableReturn(t)
  \/ RemoveReturn(t)
  \/ SizeReturn(t)

NextThreads ==
  \/ \E t \in Threads : Lock(t, "Evict", NoFrame, FALSE)
  \/ \E t \in Threads, f \in Args : Lock(t, "RecordAccess", f, FALSE)
  \/ \E t \in Threads, f \in Args, v \in BOOLEAN : Lock(t, "SetEvictable", f, v)
  \/ \E t \in Threads, f \in Args : Lock(t, "Remove", f, FALSE)
  \/ \E t \in Threads : SizeCall(t)
  \/ \E t \in Threads : Proceed(t)

SpecThreads == Init /\ [][NextThreads]_vars

----------------------------------------------------------------------------
\* The copy-on-write trie of src/unnamed/part_000. Nodes live in heap at the
\* addresses 1..Len(heap); 0 is the null pointer. A shared_ptr is an address,
\* make_shared appends a node, and a node is never freed, so that a trie built
\* earlier can still be read after later calls.

\* The keys and values the calls are made with: the empty key, two one-letter
\* keys and two extensions of one of them; two values of one type and one of
\* another.
Keys == {<<>>, <<"a">>, <<"b">>, <<"a", "a">>, <<"a", "b">>}
Types == {"uint32_t", "std::string"}
Values == {[type |-> "uint32_t", v |-> 1], [type |-> "uint32_t", v |-> 2],
           [type |-> "std::string", v |-> 1]}

\* nullptr, as a node address and as the result of Get.
Null == 0

\* An empty children_ map, and a map with one key set or erased.
NoChildren == [c \in {} |-> Null]
Bind(children, ch, node) ==
  [c \in DOMAIN children \cup {ch} |-> IF c = ch THEN node ELSE children[c]]
Unbind(children, ch) == [c \in DOMAIN children \ {ch} |-> children[c]]

\* TrieNode(children) and TrieNodeWithValue<T>(children, value).
TrieNode(children) ==
  [children_ |-> children, is_value_node_ |-> FALSE, type |-> "", value_ |-> Null]
TrieNodeWithValue(children, T, value) ==
  [children_ |-> children, is_value_node_ |-> TRUE, type |-> T, value_ |-> value]

\* node->Clone(): a copy of the node of the same dynamic type, value included.
Clone(h, node) == h[node]

\* node->children_.at(ch) when children_.count(ch), null otherwise.
Child(h, node, ch) ==
  IF node = Null \/ ch \notin DOMAIN h[node].children_ THEN Null
  ELSE h[node].children_[ch]

\* The node reached from node along key, null when a child is missing.
RECURSIVE Walk(_, _, _)
Walk(h, node, key) ==
  IF key = <<>> THEN node ELSE Walk(h, Child(h, node, Head(key)), Tail(key))

\* Trie::Get<T>(key) on the trie with root root: the value, or nullptr when the
\* node is missing, holds no value or holds a value of another type.
TrieGet(h, root, key, T) ==
  LET node == Walk(h, root, key)
  IN IF node = Null THEN Null
     ELSE IF ~h[node].is_value_node_ THEN Null
     ELSE IF h[node].type = T THEN h[node].value_ ELSE Null

\* Mutant of PutStart: Put works on the root itself instead of a clone.
PutStart_SharesRoot(h, root) ==
  IF root # Null THEN [heap |-> h, node |-> root]
  ELSE [heap |-> Append(h, TrieNode(NoChildren)), node |-> Len(h) + 1]

\* Line 35 of Put: a clone of the root, or a new node when the root is null.
PutStart(h, root) ==
  [heap |-> Append(h, IF root # Null THEN Clone(h, root)
                      ELSE TrieNode(NoChildren)),
   node |-> Len(h) + 1]

\* Lines 36-44 of Put: push the node, then step to a clone of its child for
\* the next character, or to a new node when it has none.
RECURSIVE PutDown(_, _, _, _)
PutDown(h, node, key, node_stack) ==
  IF key = <<>> THEN [heap |-> h, node |-> node, node_stack |-> node_stack]
  ELSE LET child == Child(h, node, Head(key))
           next == IF child = Null THEN TrieNode(NoChildren) ELSE Clone(h, child)
       IN PutDown(Append(h, next), Len(h) + 1, Tail(key),
                  Append(node_stack, node))

\* Lines 46-50 of Put: from the last character back, hang node under the top
\* of the stack and continue with that node.
RECURSIVE PutUp(_, _, _, _)
PutUp(h, key, node_stack, node) ==
  IF node_stack = <<>> THEN [heap |-> h, node |-> node]
  ELSE LET top == node_stack[Len(node_stack)]
           ch == key[Len(key)]
       IN PutUp([h EXCEPT ![top].children_ = Bind(@, ch, node)],
                SubSeq(key, 1, Len(key) - 1),
                SubSeq(node_stack, 1, Len(node_stack) - 1), top)

\* Trie::Put<T>(key, value): the heap after the call and the new trie's root.
TriePutBody(h, root, key, value) ==
  LET start == PutStart(h, root)
      down == PutDown(start.heap, start.node, key, <<>>)
      leaf == TrieNodeWithValue(down.heap[down.node].children_, value.type,
                                value.v)
      up == PutUp(Append(down.heap, leaf), key, down.node_stack,
                  Len(down.heap) + 1)
  IN [heap |-> up.heap, root |-> up.node]

\* Lines 72-80 of Remove: from the last character back, clone the node on the
\* stack, hang child under it, and erase that entry again when child has
\* neither children nor a value.
RECURSIVE RemoveUp(_, _, _, _, _)
RemoveUp(h, node_stack, key, i, child_node) ==
  IF i = 0 THEN [heap |-> h, node |-> child_node]
  ELSE LET cur_node == Len(h) + 1
           h1 == Append(h, Clone(h, node_stack[i]))
           h2 == [h1 EXCEPT ![cur_node].children_ = Bind(@, key[i], child_node)]
           c == h2[cur_node].children_[key[i]]
           h3 == IF DOMAIN h2[c].children_ = {} /\ ~h2[c].is_value_node_
                   THEN [h2 EXCEPT ![cur_node].children_ = Unbind(@, key[i])]
                   ELSE h2
       IN RemoveUp(h3, node_stack, key, i - 1, cur_node)

\* What line 66 of Remove reads through cur_node. After an empty loop on a
\* trie whose root is null cur_node is null, and cur_node->is_value_node_ is
\* undefined behaviour: the process dies, or the read yields false and the
\* call returns Trie(root_). Everywhere else the node is read ("node").
NullRead(root, key) ==
  IF root = Null /\ key = <<>> THEN {"crash", "false"} ELSE {"node"}

\* Trie::Remove(key): the heap after the call, the returned trie's root, and
\* whether the call returned.
TrieRemoveBody(h, root, key, read) ==
  LET cur_node == Walk(h, root, key)
      node_stack == [i \in 1..Len(key) |-> Walk(h, root, SubSeq(key, 1, i - 1))]
      same == [heap |-> h, root |-> root, result |-> "ok"]
      up == RemoveUp(Append(h, TrieNode(h[cur_node].children_)), node_stack,
                     key, Len(key), Len(h) + 1)
  IN IF key # <<>> /\ cur_node = Null THEN same
     ELSE IF cur_node = Null
       THEN IF read = "crash"
              THEN [heap |-> h, root |-> root, result |-> "crash"]
              ELSE same
     ELSE IF ~h[cur_node].is_value_node_ THEN same
     ELSE IF DOMAIN up.heap[up.node].children_ = {}
       THEN [heap |-> up.heap, root |-> Null, result |-> "ok"]
     ELSE [heap |-> up.heap, root |-> up.node, result |-> "ok"]

\* What the calls on tries leave alone.
replacer ==
  <<replacer_size_, k_, max_size_, curr_size_, current_timestamp_, hist_,
    record_cnt_, evictable_, new_frames_, new_pos_, k_frames_, k_pos_, latch_,
    last, pc, args>>

\* root_ = root_.Put(key, value).
TriePut(key, value) ==
  /\ nops < MaxOps /\ tlast.result # "crash"
  /\ LET put == TriePutBody(heap, root_, key, value)
     IN heap' = put.heap /\ root_' = put.root
  /\ nops' = nops + 1
  /\ tlast' = [op |-> "Put", key |-> key, type |-> value.type,
               value |-> value.v, result |-> "ok"]
  /\ UNCHANGED replacer

\* root_ = root_.Remove(key).
TrieRemove(key) ==
  /\ nops < MaxOps /\ tlast.result # "crash"
  /\ \E read \in NullRead(root_, key) :
       LET rm == TrieRemoveBody(heap, root_, key, read)
       IN /\ heap' = rm.heap /\ root_' = rm.root
          /\ tlast' = [op |-> "Remove", key |-> key, type |-> "",
                       value |-> Null, result |-> rm.result]
  /\ nops' = nops + 1
  /\ UNCHANGED replacer

NextTrie ==
  \/ \E key \in Keys, value \in Values : TriePut(key, value)
  \/ \E key \in Keys : TrieRemove(key)

\* The tries start empty (null root); the replacer beside them plays no part.
InitTrie == Init /\ replacer_size_ = 1 /\ k_ = 1

SpecTrie == InitTrie /\ [][NextTrie]_vars

----------------------------------------------------------------------------
\* Vocabulary of the properties.

\* No call is in progress: every call made so far has returned or thrown.
Idle == latch_ = "free"

\* The frames in the cold index (new_frames_) and in the warm index (k_frames_).
Cold == {new_frames_[i] : i \in 1..Len(new_frames_)}
Warm == {k_frames_[i][1] : i \in 1..Len(k_frames_)}

\* The frames with at least one access since they were last cleared.
Tracked == {f \in FrameIds : record_cnt_[f] > 0}

\* The evictable frames with fewer than k_ accesses, and with at least k_.
ColdEvictable == {f \in Tracked : record_cnt_[f] < k_ /\ evictable_[f]}
WarmEvictable == {f \in Tracked : record_cnt_[f] >= k_ /\ evictable_[f]}

\* The fields other than last and latch_ are unchanged by the step.
FieldsUnchanged == Fields' = Fields

\* Frame f's bookkeeping is clear after the step.
ClearedAfter(f) ==
  /\ record_cnt_'[f] = 0
  /\ hist_'[f] = <<>>
  /\ \A i \in 1..Len(new_frames_') : new_frames_'[i] # f
  /\ \A i \in 1..Len(k_frames_') : k_frames_'[i][1] # f

\* Consistency of the model's reading of the iterator maps: new_pos_ and k_pos_
\* hold exactly the frames of their lists, and k_frames_ is sorted by key, so
\* that every erase through a map and every upper_bound is well defined.
ListsWellFormed ==
  Idle => /\ new_pos_ = Cold
          /\ k_pos_ = Warm
          /\ \A i, j \in 1..Len(k_frames_) :
               i < j => k_frames_[i][2] <= k_frames_[j][2]

----------------------------------------------------------------------------
\* C1: whenever no call is in progress, Size() (curr_size_) equals the number
\* of frames whose access count is > 0 and whose evictable flag is true.
C1_SizeCountsEvictableTracked ==
  Idle => curr_size_ = Cardinality({f \in Tracked : evictable_[f]})

\* C1 witness: tracked frames of both kinds, one pinned and one evictable.
C1_Witness ==
  /\ Idle
  /\ \E f, g \in Tracked : evictable_[f] /\ ~evictable_[g]
  /\ curr_size_ = 1

\* C2: after every completed call a frame is in new_frames_ iff its access
\* count is in [1, k_), in k_frames_ iff its count is >= k_, in neither when its
\* count is 0, and no frame appears twice in a list.
C2_IndexMembership ==
  Idle =>
    /\ \A f \in FrameIds :
         /\ f \in Cold <=> (1 <= record_cnt_[f] /\ record_cnt_[f] < k_)
         /\ f \in Warm <=> (record_cnt_[f] >= k_ /\ record_cnt_[f] > 0)
         /\ record_cnt_[f] = 0 => f \notin Cold \cup Warm
         /\ ~(f \in Cold /\ f \in Warm)
    /\ Cardinality(Cold) = Len(new_frames_)
    /\ Cardinality(Warm) = Len(k_frames_)

\* C2 witness: a cold frame and a warm frame tracked together while a frame of
\* the admitted range has count 0.
C2_Witness ==
  /\ Idle
  /\ Cold # {} /\ Warm # {} /\ k_ > 1
  /\ \E f \in 0..replacer_size_ : record_cnt_[f] = 0

\* C3: no step clears or alters the bookkeeping of a tracked frame whose
\* evictable flag is false; the frame cleared by an Evict call, or by the
\* eviction nested in RecordAccess, was evictable; and Evict returns no victim,
\* changing nothing, when every tracked frame is pinned.
C3_PinnedNeverVictim ==
  [][ /\ \A g \in Tracked :
           ~evictable_[g] =>
             /\ record_cnt_'[g] >= record_cnt_[g]
             /\ hist_'[g] # <<>>
             /\ (g \in Cold \cup Warm) =>
                  \/ \E i \in 1..Len(new_frames_') : new_frames_'[i] = g
                  \/ \E i \in 1..Len(k_frames_') : k_frames_'[i][1] = g
      /\ (last'.op \in {"Evict", "RecordAccess"} /\ last'.victim # NoFrame) =>
           /\ last'.victim \in Tracked
           /\ evictable_[last'.victim]
      /\ (last'.op = "Evict" /\ \A g \in Tracked : ~evictable_[g]) =>
           last'.result = "false" /\ FieldsUnchanged
    ]_vars

\* C3 witness: Evict has just returned no victim although frames are tracked.
C3_Witness ==
  /\ last.op = "Evict" /\ last.result = "false"
  /\ Tracked # {}
  /\ \A g \in Tracked : ~evictable_[g]

\* C4: Evict returns no victim exactly when Size() is 0, and changes nothing
\* then; when Size() > 0 it returns a frame that on return has count 0, an
\* empty history, is in neither list, with Size() one less than before.
C4_EvictResult ==
  [][ last'.op = "Evict" =>
        /\ last'.result = "false" <=> curr_size_ = 0
        /\ curr_size_ = 0 => last'.victim = NoFrame /\ FieldsUnchanged
        /\ curr_size_ > 0 =>
             /\ last'.result = "true"
             /\ last'.victim \in Tracked
             /\ ClearedAfter(last'.victim)
             /\ curr_size_' = curr_size_ - 1
    ]_vars

\* C4 witness: Evict has just returned a frame while another stays tracked.
C4_Witness ==
  /\ last.op = "Evict" /\ last.result = "true"
  /\ record_cnt_[last.victim] = 0 /\ hist_[last.victim] = <<>>
  /\ Tracked # {}

\* C5: when an evictable frame with fewer than k_ accesses exists, Evict returns
\* a frame with fewer than k_ accesses; it returns a frame with k_ or more only
\* when no evictable frame has fewer.
C5_ColdBeforeWarm ==
  [][ last'.op = "Evict" =>
        /\ ColdEvictable # {} =>
             last'.victim \in Tracked /\ record_cnt_[last'.victim] < k_
        /\ (last'.victim # NoFrame /\ record_cnt_[last'.victim] >= k_) =>
             ColdEvictable = {}
    ]_vars

\* C5 witness: capacity 2, K 2, accesses 1, 2, 1, then Evict returned 2 although
\* frame 1 (accessed at 1 and 3) is evictable and was accessed first; Size() 1.
C5_Witness ==
  /\ replacer_size_ = 2 /\ k_ = 2
  /\ last.op = "Evict" /\ last.victim = 2
  /\ hist_[1] = <<1, 3>> /\ evictable_[1]
  /\ curr_size_ = 1

\* The most recent access of f and its k_-th most recent access, read from
\* the timestamps RecordAccess appended to f's history.
MostRecent(f) == hist_[f][Len(hist_[f])]
KthMostRecent(f) == hist_[f][Len(hist_[f]) - k_ + 1]

\* C6: when Evict returns a frame with fewer than k_ accesses, no evictable
\* frame with fewer than k_ accesses has an older most recent access.
C6_ColdVictimLeastRecentlyUsed ==
  [][ (/\ last'.op = "Evict"
       /\ last'.victim \in Tracked
       /\ record_cnt_[last'.victim] < k_) =>
        \A g \in ColdEvictable : MostRecent(last'.victim) <= MostRecent(g)
    ]_vars

C8_RejectsFramesFromCapacityOn ==
  [][ /\ (/\ last'.op \in {"RecordAccess", "Remove"}
          /\ last'.frame >= replacer_size_) =>
           last'.result = "throw" /\ FieldsUnchanged
      /\ \A f \in FrameIds : record_cnt_'[f] > 0 => f < replacer_size_
    ]_vars

\* C9: for a frame id f the range check lets through, Remove(f) throws and
\* changes nothing when f is tracked and pinned, returns and changes nothing
\* when f's count is 0, and otherwise clears f as the eviction of f does (count
\* 0, empty history, out of its list, nothing else touched) with Size() one less.
C9_Remove ==
  [][ (last'.op = "Remove" /\ last'.frame <= replacer_size_) =>
        LET f == last'.frame
        IN /\ (record_cnt_[f] > 0 /\ ~evictable_[f]) =>
                last'.result = "throw" /\ FieldsUnchanged
           /\ record_cnt_[f] = 0 =>
                last'.result = "ok" /\ FieldsUnchanged
           /\ (record_cnt_[f] > 0 /\ evictable_[f]) =>
                /\ last'.result = "ok"
                /\ ClearedAfter(f)
                /\ curr_size_' = curr_size_ - 1
                /\ Fields' = (IF f \in Cold THEN EvictCold(Fields, f)
                              ELSE EvictWarm(Fields, KPos(Fields, f)))
    ]_vars

\* C9 witness: Remove has just thrown on a tracked, pinned frame.
C9_Witness ==
  /\ last.op = "Remove" /\ last.result = "throw"
  /\ last.frame \in Tracked /\ ~evictable_[last.frame]

\* C10: SetEvictable(f, v) adds 1 to Size() when f is tracked and goes from
\* pinned to evictable, subtracts 1 when it goes from evictable to pinned, and
\* leaves Size() unchanged otherwise; on a tracked frame the flag is v on
\* return, so the same call made again changes nothing; on a frame with count
\* 0 no field changes.
C10_SetEvictable ==
  [][ last'.op = "SetEvictable" =>
        LET f == last'.frame
            v == last'.flag
        IN /\ curr_size_' - curr_size_ =
                (IF record_cnt_[f] > 0 /\ v # evictable_[f]
                   THEN (IF v THEN 1 ELSE 0 - 1) ELSE 0)
           /\ record_cnt_[f] > 0 => evictable_'[f] = v
           /\ (record_cnt_[f] = 0 \/ v = evictable_[f]) => FieldsUnchanged
    ]_vars

\* C10 witness: SetEvictable(f, FALSE) has just pinned a tracked frame while
\* another frame stays evictable.
C10_Witness ==
  /\ last.op = "SetEvictable" /\ last.flag = FALSE
  /\ last.frame \in Tracked /\ ~evictable_[last.frame]
  /\ curr_size_ = Cardinality(Tracked) - 1 /\ curr_size_ > 0

----------------------------------------------------------------------------
\* C11: a RecordAccess(f) that returns, made for a frame f that Remove or Evict
\* cleared earlier (access count 0, flag still true from its former life),
\* leaves f as a first access of a never-seen frame does: its history is the
\* new timestamp alone, its count is 1, it is evictable, and it is at the front
\* of the cold index (in the warm index when k_ = 1); every field is what the
\* same call yields when the flag left over from the former life is reset.
C11_ReaccessIsFirstAccess ==
  [][ ( /\ last'.op = "RecordAccess" /\ last'.result = "ok"
        /\ record_cnt_[last'.frame] = 0 /\ evictable_[last'.frame] ) =>
        LET f == last'.frame
            fresh == [Fields EXCEPT !.evictable_[f] = FALSE]
        IN /\ hist_'[f] = <<current_timestamp_'>>
           /\ record_cnt_'[f] = 1
           /\ evictable_'[f]
           /\ k_ > 1 => new_frames_'[1] = f /\ f \notin Warm'
           /\ k_ = 1 => f \in Warm' /\ f \notin Cold'
           /\ Fields' = RecordAccessBody(fresh, f, "proceeds").r ]_vars

\* C11 witness: frame f was accessed, cleared and accessed again: the clock is
\* past 1, f's history is the last timestamp alone, and no other frame was ever
\* admitted (its flag would still show it).
C11_Witness ==
  /\ last.op = "RecordAccess" /\ last.result = "ok"
  /\ current_timestamp_ >= 2
  /\ hist_[last.frame] = <<current_timestamp_>>
  /\ record_cnt_[last.frame] = 1
  /\ \A g \in FrameIds \ {last.frame} : record_cnt_[g] = 0 /\ ~evictable_[g]

----------------------------------------------------------------------------
\* The frame Evict would choose in the current state.
EvictChoice == EvictBody(Fields).frame

\* C14: a RecordAccess of a frame with access count 0 that the range check
\* admits, made while Size() == capacity, returns having evicted exactly the
\* frame Evict would choose and having admitted the new frame as evictable at
\* the front of the cold index, with Size() == capacity; made while Size() <
\* capacity it evicts nothing and Size() grows by one.
C14_AdmissionEvictsWhenFull ==
  [][ ( /\ last'.op = "RecordAccess" /\ last'.frame <= replacer_size_
        /\ record_cnt_[last'.frame] = 0 ) =>
        LET f == last'.frame
        IN /\ curr_size_ = replacer_size_ =>
                /\ last'.result = "ok"
                /\ last'.victim \in Tracked /\ last'.victim = EvictChoice
                /\ ClearedAfter(last'.victim)
                /\ Tracked' = (Tracked \ {last'.victim}) \cup {f}
                /\ evictable_'[f]
                /\ k_ > 1 => new_frames_'[1] = f
                /\ curr_size_' = replacer_size_
           /\ curr_size_ < replacer_size_ =>
                /\ last'.result = "ok" /\ last'.victim = NoFrame
                /\ Tracked' = Tracked \cup {f}
                /\ curr_size_' = curr_size_ + 1 ]_vars

----------------------------------------------------------------------------
\* The evictable tracked frames, and among them the one(s) whose most recent
\* access is the oldest: the choice of a plain LRU policy.
EvictableTracked == {f \in Tracked : evictable_[f]}
LruChoice ==
  {f \in EvictableTracked :
     \A g \in EvictableTracked : MostRecent(f) <= MostRecent(g)}

\* C15: with k_ = 1 the replacer behaves as plain LRU: every Evict returns the
\* evictable tracked frame whose most recent access is the oldest (false when
\* there is none), and after every completed call Size() is the number of
\* frames the LRU policy holds as evictable.
C15_KOneIsLru ==
  [][ k_ = 1 =>
        /\ last'.op = "Evict" =>
             IF EvictableTracked = {}
               THEN last'.result = "false" /\ FieldsUnchanged
               ELSE /\ last'.result = "true"
                    /\ LruChoice = {last'.victim}
                    /\ EvictableTracked' = EvictableTracked \ {last'.victim}
        /\ Idle' => curr_size_' = Cardinality(EvictableTracked') ]_vars

\* C15 witness: k_ = 1 and Evict returned the frame accessed at time 2, while
\* the frame accessed at times 1 and 3, first in but used since, is kept.
C15_Witness ==
  /\ k_ = 1 /\ last.op = "Evict" /\ last.result = "true"
  /\ current_timestamp_ = 3
  /\ \E g \in Tracked :
       g # last.victim /\ record_cnt_[g] = 2 /\ hist_[g] = <<3>>

----------------------------------------------------------------------------
\* The last n elements of sequence s (all of it when it is shorter).
Suffix(s, n) ==
  IF Len(s) <= n THEN s ELSE SubSeq(s, Len(s) - n + 1, Len(s))

Min(a, b) == IF a <= b THEN a ELSE b

\* C16: after every completed call each frame's history holds min(count, k_)
\* timestamps in increasing order, none later than the clock; a RecordAccess
\* that returns counts one more access (also past k_), and the frame's history
\* becomes the last k_ entries of its old history followed by the new
\* timestamp, so that it is always the most recent accesses that are kept.
C16_HistoryKeepsLastK ==
  [][ /\ Idle' =>
           \A f \in FrameIds :
             /\ Len(hist_'[f]) = Min(record_cnt_'[f], k_)
             /\ \A i, j \in 1..Len(hist_'[f]) :
                  i < j => hist_'[f][i] < hist_'[f][j]
             /\ \A i \in 1..Len(hist_'[f]) : hist_'[f][i] <= current_timestamp_'
      /\ (last'.op = "RecordAccess" /\ last'.result = "ok") =>
           LET f == last'.frame
           IN /\ current_timestamp_' = current_timestamp_ + 1
              /\ record_cnt_'[f] = record_cnt_[f] + 1
              /\ hist_'[f] = Suffix(Append(hist_[f], current_timestamp_'), k_)
              /\ \A g \in FrameIds \ {f} :
                   hist_'[g] = hist_[g] \/ (hist_'[g] = <<>> /\ g = last'.victim)
    ]_vars

\* C16 witness: a frame accessed three times under k_ = 2 keeps its last two
\* timestamps while its count is 3.
C16_Witness ==
  /\ Idle /\ k_ = 2
  /\ \E f \in Tracked : record_cnt_[f] = 3 /\ hist_[f] = <<2, 3>>

----------------------------------------------------------------------------
\* C17: whenever no call is in progress, neither the number of tracked frames
\* nor Size() exceeds the capacity.
C17_NeverAboveCapacity ==
  Idle => /\ Cardinality(Tracked) <= replacer_size_
          /\ curr_size_ <= replacer_size_

----------------------------------------------------------------------------
\* Thread t is inside a call of the replacer.
Inside(t) == pc[t] # "idle"

\* C12: a thread inside any public member function, Size() included, holds
\* latch_, and no other thread is inside a member function at the same time.
C12_CallsExcludeEachOther ==
  \A t \in Threads :
    Inside(t) => latch_ = "held" /\ \A u \in Threads \ {t} : ~Inside(u)

----------------------------------------------------------------------------
\* C13: a thread inside a call can always take its next step towards the
\* return, the first access made at Size() == capacity included (no call
\* waits for a latch that is never released), and with every thread outside
\* the replacer the latch is free.
C13_EveryCallCompletes ==
  /\ \A t \in Threads : Inside(t) => ENABLED Proceed(t)
  /\ (\A t \in Threads : ~Inside(t)) => latch_ = "free"

----------------------------------------------------------------------------
\* Key holds a value (of some type) in the trie with root root.
HasValue(h, root, key) == \E T \in Types : TrieGet(h, root, key, T) # Null

\* Every key other than those of except reads in trie (h2, root2) as it reads
\* in trie (h1, root1), for every type.
SameReads(h1, root1, h2, root2, except) ==
  \A k \in Keys \ except, T \in Types :
    TrieGet(h2, root2, k, T) = TrieGet(h1, root1, k, T)

\* C18: Remove(k) of a key that holds a value returns a trie that has no value
\* at k and reads at every other key, the empty key, prefixes and extensions
\* of k included, as the trie it was called on.
C18_RemoveKeepsOtherKeys ==
  [][ ( /\ tlast'.op = "Remove" /\ nops' = nops + 1
        /\ HasValue(heap, root_, tlast'.key) ) =>
        /\ tlast'.result = "ok"
        /\ ~HasValue(heap', root_', tlast'.key)
        /\ SameReads(heap, root_, heap', root_', {tlast'.key}) ]_vars

----------------------------------------------------------------------------
\* C19: a Put(k, v) or Remove(k) that returns leaves every read of the trie it
\* was called on as it was, and the trie Put returns reads v at k (for v's
\* type, null for the other) and reads as the original at every other key.
C19_CopyOnWrite ==
  [][ ( tlast'.op \in {"Put", "Remove"} /\ nops' = nops + 1
        /\ tlast'.result = "ok" ) =>
        /\ SameReads(heap, root_, heap', root_, {})
        /\ \A n \in 1..Len(heap) : heap'[n] = heap[n]
        /\ tlast'.op = "Put" =>
             /\ \A T \in Types :
                  TrieGet(heap', root_', tlast'.key, T) =
                    IF T = tlast'.type THEN tlast'.value ELSE Null
             /\ SameReads(heap, root_, heap', root_', {tlast'.key}) ]_vars

\* C19 witness: the last call put a value at "a" in a trie that already held
\* values at the empty key and at the extension "aa" of "a": the new path runs
\* through a valued root to a node whose child is shared with the old trie.
C19_Witness ==
  /\ tlast.op = "Put" /\ tlast.key = <<"a">>
  /\ HasValue(heap, root_, <<>>)
  /\ HasValue(heap, root_, <<"a", "a">>)
  /\ HasValue(heap, root_, <<"a">>)

----------------------------------------------------------------------------
\* C20: Remove(k) of a key that holds no value, on any trie (the empty one
\* included) and for any key (the empty one included), returns, and the trie
\* it returns reads at every key as the trie it was called on.
C20_RemoveOfAbsentKey ==
  [][ ( /\ tlast'.op = "Remove" /\ nops' = nops + 1
        /\ ~HasValue(heap, root_, tlast'.key) ) =>
        /\ tlast'.result = "ok"
        /\ SameReads(heap, root_, heap', root_', {}) ]_vars

====
